---- MODULE Spec2Model ----
(***************************************************************************)
(* Model of src/main.py: the double-buffered ScreensaverManager, the       *)
(* MatrixScreensaver ("rain") and the PipesScreensaver ("pipe").           *)
(***************************************************************************)
EXTENDS Integers, Sequences, FiniteSets, TLC

(* ---- bounds of the model ---- *)
DisplayWidth == 4
DisplayHeight == 3
RainWidth == 3
RainHeight == 11
MaxFrames == 2
RainFrames == 3
PipeFrames == 2
WalkFrames == 4
LongWidth == 28
LongFrames == 3

(* ---- constants of the program ---- *)
MatrixColors == 16
PipeColors == 9
BrightHead == 15
HeadDecay == 3
HistorySize == 10
MaxPipes == 10
TurnRamp == 25

VARIABLES
  display_width,          \* self._display.width
  display_height,         \* self._display.height
  screensavers,           \* ScreensaverManager.screensavers, a list of objects
  current_screensaver,    \* ScreensaverManager._current_screensaver
  viewport,               \* per object: <<_viewport_width, _viewport_height>>
  was_reset,              \* per object: reset() has run (its fields exist)
  recent_rows,            \* MatrixScreensaver.recent_rows
  num_pipes,              \* PipesScreensaver.num_pipes
  ticks_without_turn,     \* PipesScreensaver.ticks_without_turn
  color,                  \* PipesScreensaver.color
  direction,              \* PipesScreensaver.direction
  position,               \* PipesScreensaver.position
  buffer1,                \* ScreensaverManager._buffer1 (its bitmap)
  buffer2,                \* ScreensaverManager._buffer2 (its bitmap)
  palette1,               \* palette bound to _buffer1's tile grid
  palette2,               \* palette bound to _buffer2's tile grid
  root_group,             \* display.root_group: the group on the output
  underscore_root_group,  \* display._root_group: the attribute line 287 sets
  use_secondary_buffer,   \* ScreensaverManager._use_secondary_buffer
  status,                 \* "ok", "error" (exception escaped), "hang" (loop spins)
  frames_left,            \* the draws the driving loop still makes
  last,                   \* the last operation and the arguments it passed to draw
  spawns                  \* the rows the rain spawn step chose since reset(), newest last

vars == <<display_width, display_height, screensavers, current_screensaver,
          viewport, was_reset, recent_rows, num_pipes, ticks_without_turn,
          color, direction, position, buffer1, buffer2, palette1, palette2,
          root_group, underscore_root_group, use_secondary_buffer, status,
          frames_left, last, spawns>>

(* The two screensaver objects the program creates. *)
Objects == {"matrix", "pipes"}

(* max() that returns its first argument. *)
MaxUnclamped(a, b) == a

Max(a, b) == IF a > b THEN a ELSE b

(* random.randint(a, b): any integer of [a, b]. *)
RandInt(a, b) == a..b

Cells(w, h) == (0..(w - 1)) \X (0..(h - 1))

(* fill() that leaves the bitmap as it was. *)
FillKept(buf, value) == buf

(* Bitmap.fill(value) *)
Fill(buf, value) == [c \in DOMAIN buf |-> value]

(* Bitmap(width, height, 16) as created by _setup_buffer: all zero. *)
SetupBuffer(w, h) == [c \in Cells(w, h) |-> 0]

(* len(palette) of get_palette() of each object; "empty" is Palette(0). *)
PaletteLen(p) ==
  CASE p = "matrix" -> MatrixColors
    [] p = "pipes" -> PipeColors
    [] OTHER -> 0

(* The property ScreensaverManager.current_screensaver: an object or "none". *)
CurrentObject(roster, idx) ==
  IF 0 <= idx /\ idx < Len(roster) THEN roster[idx + 1] ELSE "none"

(* Screensaver.is_viewport_valid *)
IsViewportValid(vp) == vp[1] > 0 /\ vp[2] > 0

Buf(name) == IF name = "buffer1" THEN buffer1 ELSE buffer2

NoCall == [op |-> "init", kind |-> "none", prev |-> "none", curr |-> "none",
           index |-> -1, pipes |-> 0, ticks |-> 0, direction |-> 0,
           position |-> <<0, 0>>]

(* A run() that called draw(prev, curr) when the screensaver of index idx was
   current and the pipes' fields were st. *)
DrawCall(prev, curr, idx, st) ==
  [op |-> "run", kind |-> "draw", prev |-> prev, curr |-> curr, index |-> idx,
   pipes |-> st.num_pipes, ticks |-> st.ticks, direction |-> st.direction,
   position |-> st.position]

(* ---------------- MatrixScreensaver ---------------- *)

Range(s) == {s[i] : i \in 1..Len(s)}

(* MatrixStep without the branch of lines 106-108: a 15 fades like any other
   value. *)
MatrixStepFading(prev, cb, x, y) ==
  LET value == prev[<<x, y>>]
      shifted == [cb EXCEPT ![<<x + 1, y>>] = value]
  IN {[shifted EXCEPT ![<<x, y>>] = Max(value - 1, 0)],
      [shifted EXCEPT ![<<x, y>>] = Max(value, 0)]}

(* One pass of the body of the inner loop of MatrixScreensaver.draw (lines
   102-113) at column x of row y: the buffers it can leave, one per outcome of
   random.random() < 0.3. *)
MatrixStep(prev, cb, x, y) ==
  LET value == prev[<<x, y>>]
      shifted == [cb EXCEPT ![<<x + 1, y>>] = value]
  IN IF value = BrightHead
       THEN {[shifted EXCEPT ![<<x, y>>] = value - HeadDecay]}
       ELSE {[shifted EXCEPT ![<<x, y>>] = Max(value - 1, 0)],
             [shifted EXCEPT ![<<x, y>>] = Max(value, 0)]}

(* MatrixPass without the reversed() of line 101: columns 0 up to width-2. *)
RECURSIVE MatrixPassAscending(_, _, _, _, _)
MatrixPassAscending(prev, bufs, w, h, i) ==
  IF w <= 1 \/ i >= h * (w - 1)
    THEN bufs
    ELSE LET y == i \div (w - 1)
             x == i % (w - 1)
         IN MatrixPassAscending(prev,
                                UNION {MatrixStep(prev, b, x, y) : b \in bufs},
                                w, h, i + 1)

(* The nested loops of lines 100-113, iteration i onwards: rows ascending,
   columns width-2 down to 0. bufs is the set of buffers the earlier
   iterations can have produced. *)
RECURSIVE MatrixPass(_, _, _, _, _)
MatrixPass(prev, bufs, w, h, i) ==
  IF w <= 1 \/ i >= h * (w - 1)
    THEN bufs
    ELSE LET y == i \div (w - 1)
             x == (w - 2) - (i % (w - 1))
         IN MatrixPass(prev, UNION {MatrixStep(prev, b, x, y) : b \in bufs},
                       w, h, i + 1)

(* Remember without the pop() of lines 122-123. *)
RememberAll(rows, y) == Append(rows, y)

(* Lines 121-123: append the row, and pop() when more than 10 are held.
   list.pop() removes the last element. *)
Remember(rows, y) ==
  LET appended == Append(rows, y)
  IN IF Len(appended) > HistorySize
       THEN SubSeq(appended, 1, Len(appended) - 1)
       ELSE appended

(* The rows the loop of lines 116-119 can leave with. *)
SpawnRows(rows, h) == {y \in RandInt(0, h - 1) : y \notin Range(rows)}

(* MatrixScreensaver.draw: every outcome. done = FALSE: the loop of lines
   116-119 has no row to leave with and spins for ever. *)
MatrixDraw(prev, curr, vp, rows) ==
  LET w == vp[1]
      h == vp[2]
      passed == MatrixPass(prev, {Fill(curr, 0)}, w, h, 0)
      free == SpawnRows(rows, h)
  IN IF free = {}
       THEN {[buf |-> b, rows |-> rows, y |-> -1, done |-> FALSE] : b \in passed}
       ELSE {[buf |-> IF lit THEN [b EXCEPT ![<<0, y>>] = BrightHead] ELSE b,
              rows |-> Remember(rows, y), y |-> y, done |-> TRUE] :
                b \in passed, y \in free, lit \in BOOLEAN}

(* ---------------- PipesScreensaver ---------------- *)

(* The methods a PipesScreensaver has (its own and Screensaver's). *)
PipesMethods == {"is_viewport_valid", "reset_viewport", "reset", "get_palette",
                 "reset_buffer", "new_pipe", "draw"}

(* The method draw looks up at line 170. *)
WipeMethod == "_reset_buffer"

(* Lines 159-166: the start positions of a pipe of direction d. *)
StartPositions(d, w, h) ==
  CASE d = 0 -> {<<0, y>> : y \in RandInt(1, h - 2)}
    [] d = 1 -> {<<x, h - 1>> : x \in RandInt(1, w - 2)}
    [] d = 2 -> {<<w - 1, y>> : y \in RandInt(1, h - 2)}
    [] d = 3 -> {<<x, 0>> : x \in RandInt(1, w - 2)}

(* NewPipe without the increment of line 154. *)
NewPipeUncounted(vp, pipes, pos) ==
  UNION {
    IF StartPositions(d, vp[1], vp[2]) = {}
      THEN {[ok |-> FALSE, num_pipes |-> pipes, ticks |-> 0, color |-> c,
             direction |-> d, position |-> pos]}
      ELSE {[ok |-> TRUE, num_pipes |-> pipes, ticks |-> 0, color |-> c,
             direction |-> d, position |-> p] : p \in StartPositions(d, vp[1], vp[2])}
    : c \in RandInt(1, PipeColors - 1), d \in RandInt(0, 3)}

(* PipesScreensaver.new_pipe: every outcome. ok = FALSE: randint was given an
   empty range and raised, after the fields of lines 153-157 were set. *)
NewPipe(vp, pipes, pos) ==
  UNION {
    IF StartPositions(d, vp[1], vp[2]) = {}
      THEN {[ok |-> FALSE, num_pipes |-> pipes + 1, ticks |-> 0, color |-> c,
             direction |-> d, position |-> pos]}
      ELSE {[ok |-> TRUE, num_pipes |-> pipes + 1, ticks |-> 0, color |-> c,
             direction |-> d, position |-> p] : p \in StartPositions(d, vp[1], vp[2])}
    : c \in RandInt(1, PipeColors - 1), d \in RandInt(0, 3)}

(* Lines 179-187 *)
Advance(pos, d) ==
  CASE d = 0 -> <<pos[1] + 1, pos[2]>>
    [] d = 1 -> <<pos[1], pos[2] - 1>>
    [] d = 2 -> <<pos[1] - 1, pos[2]>>
    [] d = 3 -> <<pos[1], pos[2] + 1>>

(* TurnStep with turn_chance = ticks / 25: a turn is possible one draw
   earlier. *)
TurnStepEager(d, ticks) ==
  (IF ticks > 0
     THEN {<<(d + turning) % 4, 0>> : turning \in {1, -1}}
     ELSE {})
  \cup
  (IF ticks - 1 < TurnRamp THEN {<<d, ticks + 1>>} ELSE {})

(* TurnStep in which going straight stays possible whatever the count. *)
TurnStepUnforced(d, ticks) ==
  (IF ticks - 1 > 0
     THEN {<<(d + turning) % 4, 0>> : turning \in {1, -1}}
     ELSE {})
  \cup
  {<<d, ticks + 1>>}

(* Lines 189-198: the <<direction, ticks_without_turn>> pairs the turn step can
   leave. random.random() is in [0, 1), so it is below (ticks - 1) / 25 for some
   draw iff ticks - 1 > 0 and for every draw iff ticks - 1 >= 25. *)
TurnStep(d, ticks) ==
  (IF ticks - 1 > 0
     THEN {<<(d + turning) % 4, 0>> : turning \in {1, -1}}
     ELSE {})
  \cup
  (IF ticks - 1 < TurnRamp THEN {<<d, ticks + 1>>} ELSE {})

(* OutOfViewport with > for >= at line 201. *)
OutOfViewportLoose(pos, vp) ==
  pos[1] < 0 \/ pos[1] > vp[1] \/ pos[2] < 0 \/ pos[2] > vp[2]

(* Line 201 *)
OutOfViewport(pos, vp) ==
  pos[1] < 0 \/ pos[1] >= vp[1] \/ pos[2] < 0 \/ pos[2] >= vp[2]

(* PipesDraw without the copy loop of lines 173-175: it draws over what
   curr held. *)
PipesDrawInPlace(prev, curr, vp, st) ==
  LET wipe == st.num_pipes > MaxPipes
      canvas == IF wipe THEN Fill(curr, 0) ELSE curr
      pipes == IF wipe THEN 0 ELSE st.num_pipes
      moved == Advance(st.position, st.direction)
  IN IF wipe /\ WipeMethod \notin PipesMethods
       THEN {[st EXCEPT !.ok = FALSE] @@ [buf |-> curr]}
     ELSE IF st.position \notin DOMAIN canvas
       THEN {[st EXCEPT !.ok = FALSE, !.num_pipes = pipes] @@ [buf |-> canvas]}
     ELSE
       UNION {
         IF OutOfViewport(moved, vp)
           THEN {n @@ [buf |-> [canvas EXCEPT ![st.position] = st.color]] :
                   n \in NewPipe(vp, pipes, moved)}
           ELSE {[ok |-> TRUE, num_pipes |-> pipes, ticks |-> t[2],
                  color |-> st.color, direction |-> t[1], position |-> moved,
                  buf |-> [canvas EXCEPT ![st.position] = st.color]]}
         : t \in TurnStep(st.direction, st.ticks)}

(* PipesScreensaver.draw: every outcome. st holds the object's fields.
   ok = FALSE: an exception left draw. *)
PipesDraw(prev, curr, vp, st) ==
  LET wipe == st.num_pipes > MaxPipes
      canvas == IF wipe
                  THEN Fill(curr, 0)
                  ELSE [c \in DOMAIN curr |->
                          IF c \in Cells(vp[1], vp[2]) THEN prev[c] ELSE curr[c]]
      pipes == IF wipe THEN 0 ELSE st.num_pipes
      moved == Advance(st.position, st.direction)
  IN IF wipe /\ WipeMethod \notin PipesMethods
       THEN {[st EXCEPT !.ok = FALSE] @@ [buf |-> curr]}
     ELSE IF st.position \notin DOMAIN canvas
       THEN {[st EXCEPT !.ok = FALSE, !.num_pipes = pipes] @@ [buf |-> canvas]}
     ELSE
       UNION {
         IF OutOfViewport(moved, vp)
           THEN {n @@ [buf |-> [canvas EXCEPT ![st.position] = st.color]] :
                   n \in NewPipe(vp, pipes, moved)}
           ELSE {[ok |-> TRUE, num_pipes |-> pipes, ticks |-> t[2],
                  color |-> st.color, direction |-> t[1], position |-> moved,
                  buf |-> [canvas EXCEPT ![st.position] = st.color]]}
         : t \in TurnStep(st.direction, st.ticks)}

(* PipesScreensaver.reset: every outcome. *)
PipesReset(vp, pos) == NewPipe(vp, 0, pos)

(* ---------------- ScreensaverManager ---------------- *)

pipeVars == <<num_pipes, ticks_without_turn, color, direction, position>>
bufferVars == <<buffer1, buffer2, palette1, palette2>>
displayVars == <<display_width, display_height>>

PipeState ==
  [ok |-> TRUE, num_pipes |-> num_pipes, ticks |-> ticks_without_turn,
   color |-> color, direction |-> direction, position |-> position]

SetPipeState(n) ==
  /\ num_pipes' = n.num_pipes
  /\ ticks_without_turn' = n.ticks
  /\ color' = n.color
  /\ direction' = n.direction
  /\ position' = n.position

(* The newest HistorySize + 1 rows of the spawn history. *)
Newest(rows) ==
  IF Len(rows) > HistorySize + 1 THEN SubSeq(rows, 2, Len(rows)) ELSE rows

(* __init__ (lines 205-214): an empty roster, two zeroed bitmaps bound to
   Palette(0), and reset() returning at once for want of a screensaver. The
   two Screensaver objects are constructed with a 0 x 0 viewport. *)
Construct(w, h, n) ==
  /\ display_width = w
  /\ display_height = h
  /\ screensavers = <<>>
  /\ current_screensaver = -1
  /\ viewport = [o \in Objects |-> <<0, 0>>]
  /\ was_reset = [o \in Objects |-> FALSE]
  /\ recent_rows = <<>>
  /\ num_pipes = 0
  /\ ticks_without_turn = 0
  /\ color = 0
  /\ direction = 0
  /\ position = <<0, 0>>
  /\ buffer1 = SetupBuffer(w, h)
  /\ buffer2 = SetupBuffer(w, h)
  /\ palette1 = "empty"
  /\ palette2 = "empty"
  /\ root_group = "none"
  /\ underscore_root_group = "none"
  /\ use_secondary_buffer = FALSE
  /\ status = "ok"
  /\ frames_left = n
  /\ last = NoCall
  /\ spawns = <<>>

Init == Construct(DisplayWidth, DisplayHeight, MaxFrames)

(* ResetViewport with the two dimensions exchanged. *)
ResetViewportSwapped(vp, obj, width, height) ==
  [vp EXCEPT ![obj] = <<height, width>>]

(* Screensaver.reset_viewport (lines 61-63), called as at lines 234-237. *)
ResetViewport(vp, obj, width, height) ==
  [vp EXCEPT ![obj] = <<width, height>>]

(* ScreensaverManager.reset (lines 228-248) for the current screensaver obj,
   with Screensaver.reset_viewport and the object's reset(). *)
Reset(obj) ==
  /\ obj \in Objects
  /\ viewport' = ResetViewport(viewport, obj, display_width, display_height)
  /\ was_reset' = [was_reset EXCEPT ![obj] = TRUE]
  /\ \E n \in IF obj = "pipes"
                THEN PipesReset(<<display_width, display_height>>, position)
                ELSE {PipeState} :
       /\ SetPipeState(n)
       /\ status' = IF n.ok THEN "ok" ELSE "error"
       /\ IF n.ok
            THEN /\ palette1' = obj
                 /\ palette2' = obj
                 /\ buffer1' = Fill(buffer1, 0)
                 /\ buffer2' = Fill(buffer2, 0)
                 /\ root_group' = "buffer1"
                 /\ use_secondary_buffer' = FALSE
            ELSE UNCHANGED <<bufferVars, root_group, use_secondary_buffer>>
  /\ IF obj = "matrix"
       THEN recent_rows' = <<>> /\ spawns' = <<>>
       ELSE UNCHANGED <<recent_rows, spawns>>
  /\ UNCHANGED <<displayVars, underscore_root_group, frames_left>>

(* CycleChoices without the comparison of line 268. *)
CycleChoicesAny(n, cur) == RandInt(0, n - 1)

(* The indices the loop of lines 266-270 can leave with. *)
CycleChoices(n, cur) == {i \in RandInt(0, n - 1) : i # cur}

(* ScreensaverManager.add (lines 250-255), with the cycle() it calls for the
   first item, which only sets the index (lines 262-264). As at lines 303-304,
   an object is registered once. *)
Add(obj) ==
  /\ status = "ok"
  /\ obj \notin Range(screensavers)
  /\ screensavers' = Append(screensavers, obj)
  /\ current_screensaver' = IF Len(screensavers) = 0 THEN 0 ELSE current_screensaver
  /\ last' = [NoCall EXCEPT !.op = "add", !.index = current_screensaver]
  /\ UNCHANGED <<displayVars, viewport, was_reset, recent_rows, pipeVars,
                 bufferVars, root_group, underscore_root_group,
                 use_secondary_buffer, status, frames_left, spawns>>

(* ScreensaverManager.cycle (lines 257-272). *)
Cycle ==
  /\ status = "ok"
  /\ UNCHANGED screensavers
  /\ IF Len(screensavers) = 0
       THEN /\ last' = [NoCall EXCEPT !.op = "cycle", !.index = current_screensaver]
            /\ UNCHANGED <<displayVars, current_screensaver, viewport, was_reset,
                           recent_rows, pipeVars, bufferVars, root_group,
                           underscore_root_group, use_secondary_buffer, status,
                           frames_left, spawns>>
     ELSE IF Len(screensavers) = 1
       THEN /\ current_screensaver' = 0
            /\ last' = [NoCall EXCEPT !.op = "cycle", !.kind = "single",
                                      !.index = current_screensaver]
            /\ UNCHANGED <<displayVars, viewport, was_reset, recent_rows,
                           pipeVars, bufferVars, root_group,
                           underscore_root_group, use_secondary_buffer, status,
                           frames_left, spawns>>
     ELSE \E new_screensaver \in CycleChoices(Len(screensavers), current_screensaver) :
            /\ current_screensaver' = new_screensaver
            /\ last' = [NoCall EXCEPT !.op = "cycle", !.kind = "switch",
                                      !.index = current_screensaver]
            /\ Reset(CurrentObject(screensavers, new_screensaver))

(* PrevBuffer that is buffer2 in both branches. *)
PrevBufferFixed(secondary) == "buffer2"

(* The surfaces run() passes to draw (lines 283-288). *)
PrevBuffer(secondary) == IF secondary THEN "buffer1" ELSE "buffer2"
CurrBuffer(secondary) == IF secondary THEN "buffer2" ELSE "buffer1"

(* What lines 283-288 leave in display.root_group: line 284 assigns it, line
   287 assigns the attribute _root_group instead. *)
RootAfterPresent(secondary, root) == IF secondary THEN "buffer1" ELSE root
UnderscoreAfterPresent(secondary, attr) == IF secondary THEN attr ELSE "buffer2"

(* The drawing part of run() (lines 281-290) for the current screensaver obj. *)
RunDraw(obj) ==
  LET prevName == PrevBuffer(use_secondary_buffer)
      currName == CurrBuffer(use_secondary_buffer)
  IN
  /\ frames_left > 0
  /\ frames_left' = frames_left - 1
  /\ root_group' = RootAfterPresent(use_secondary_buffer, root_group)
  /\ underscore_root_group' =
       UnderscoreAfterPresent(use_secondary_buffer, underscore_root_group)
  /\ last' = DrawCall(prevName, currName, current_screensaver, PipeState)
  /\ IF obj = "matrix"
       THEN \E o \in MatrixDraw(Buf(prevName), Buf(currName), viewport[obj], recent_rows) :
              /\ buffer1' = IF currName = "buffer1" THEN o.buf ELSE buffer1
              /\ buffer2' = IF currName = "buffer2" THEN o.buf ELSE buffer2
              /\ recent_rows' = o.rows
              /\ spawns' = IF o.done THEN Newest(Append(spawns, o.y)) ELSE spawns
              /\ status' = IF o.done THEN "ok" ELSE "hang"
              /\ use_secondary_buffer' =
                   IF o.done THEN ~use_secondary_buffer ELSE use_secondary_buffer
              /\ UNCHANGED pipeVars
       ELSE \E o \in PipesDraw(Buf(prevName), Buf(currName), viewport[obj], PipeState) :
              /\ buffer1' = IF currName = "buffer1" THEN o.buf ELSE buffer1
              /\ buffer2' = IF currName = "buffer2" THEN o.buf ELSE buffer2
              /\ SetPipeState(o)
              /\ status' = IF o.ok THEN "ok" ELSE "error"
              /\ use_secondary_buffer' =
                   IF o.ok THEN ~use_secondary_buffer ELSE use_secondary_buffer
              /\ UNCHANGED <<recent_rows, spawns>>
  /\ UNCHANGED <<displayVars, screensavers, current_screensaver, viewport,
                 was_reset, palette1, palette2>>

(* ScreensaverManager.run (lines 274-290). *)
Run ==
  LET obj == CurrentObject(screensavers, current_screensaver)
  IN
  /\ status = "ok"
  /\ IF obj = "none"
       THEN /\ last' = [NoCall EXCEPT !.op = "run", !.index = current_screensaver]
            /\ UNCHANGED <<displayVars, screensavers, current_screensaver,
                           viewport, was_reset, recent_rows, pipeVars,
                           bufferVars, root_group, underscore_root_group,
                           use_secondary_buffer, status, frames_left, spawns>>
     ELSE IF ~IsViewportValid(viewport[obj])
       THEN /\ last' = [NoCall EXCEPT !.op = "run", !.kind = "reset",
                                      !.index = current_screensaver]
            /\ Reset(obj)
            /\ UNCHANGED <<screensavers, current_screensaver>>
     ELSE RunDraw(obj)

Next ==
  \/ \E obj \in Objects : Add(obj)
  \/ Cycle
  \/ Run

Spec == Init /\ [][Next]_vars

(* ---------------- states further along a run ---------------- *)

(* What add(obj), a run() that resets and then `draws` drawing run() calls
   leave in the manager, whatever the draws drew: the n-th draw is made with
   the flag set iff n is even, so it writes buffer1 iff n is odd. *)
Running(obj, w, h, draws, n) ==
  /\ display_width = w
  /\ display_height = h
  /\ screensavers = <<obj>>
  /\ current_screensaver = 0
  /\ viewport = [o \in Objects |-> IF o = obj THEN <<w, h>> ELSE <<0, 0>>]
  /\ was_reset = [o \in Objects |-> o = obj]
  /\ palette1 = obj
  /\ palette2 = obj
  /\ root_group = "buffer1"
  /\ underscore_root_group = IF draws > 0 THEN "buffer2" ELSE "none"
  /\ use_secondary_buffer = (draws % 2 = 1)
  /\ status = "ok"
  /\ frames_left = n

(* The rain after k draws whose spawn steps chose rows 0, 1, ..., k-1 in turn
   and lit none of them (k <= HistorySize): both bitmaps are still zero. *)
InitRain ==
  \E k \in (HistorySize - 2)..HistorySize :
    /\ Running("matrix", RainWidth, RainHeight, k, RainFrames)
    /\ recent_rows = [i \in 1..k |-> i - 1]
    /\ spawns = [i \in 1..k |-> i - 1]
    /\ buffer1 = SetupBuffer(RainWidth, RainHeight)
    /\ buffer2 = SetupBuffer(RainWidth, RainHeight)
    /\ num_pipes = 0
    /\ ticks_without_turn = 0
    /\ color = 0
    /\ direction = 0
    /\ position = <<0, 0>>
    /\ last = DrawCall(PrevBuffer(k % 2 = 0), CurrBuffer(k % 2 = 0), 0, PipeState)

SpecRain == InitRain /\ [][Run]_vars

(* The pipes after MaxPipes - 1 pipes of colour 1 that ran straight down
   column 1 and left the viewport, and a tenth of colour c that has drawn
   all of column 1 but its last cell: 10 * height - 1 draws, the last one into
   buffer1, the one before into buffer2. *)
InitPipe ==
  \E c \in RandInt(1, PipeColors - 1) :
    LET w == DisplayWidth
        h == DisplayHeight
        Column(done) == [p \in Cells(w, h) |->
                           IF p[1] # 1 THEN 0 ELSE IF p[2] < done THEN c ELSE 1]
    IN
    /\ Running("pipes", w, h, MaxPipes * h - 1, PipeFrames)
    /\ num_pipes = MaxPipes
    /\ ticks_without_turn = h - 1
    /\ color = c
    /\ direction = 3
    /\ position = <<1, h - 1>>
    /\ buffer1 = Column(h - 1)
    /\ buffer2 = Column(h - 2)
    /\ recent_rows = <<>>
    /\ spawns = <<>>
    /\ last = DrawCall("buffer2", "buffer1", 0,
                        [PipeState EXCEPT !.ticks = h - 2, !.position = <<1, h - 2>>])

SpecPipe == InitPipe /\ [][Run]_vars

(* The pipes right after add(pipes) and the run() that resets them. *)
InitWalk ==
  /\ Running("pipes", DisplayWidth, DisplayHeight, 0, WalkFrames)
  /\ \E n \in PipesReset(<<DisplayWidth, DisplayHeight>>, <<0, 0>>) :
       /\ num_pipes = n.num_pipes
       /\ ticks_without_turn = n.ticks
       /\ color = n.color
       /\ direction = n.direction
       /\ position = n.position
  /\ buffer1 = SetupBuffer(DisplayWidth, DisplayHeight)
  /\ buffer2 = SetupBuffer(DisplayWidth, DisplayHeight)
  /\ recent_rows = <<>>
  /\ spawns = <<>>
  /\ last = [NoCall EXCEPT !.op = "run", !.kind = "reset", !.index = 0]

SpecWalk == InitWalk /\ [][Run]_vars

(* The first pipe of colour c after reset(), started at (0, 1) to the right on
   a display LongWidth wide, after k draws none of which turned: it has
   coloured columns 0..k-1 of row 1, the k-th draw wrote buffer1 iff k is odd. *)
InitLong ==
  \E c \in RandInt(1, PipeColors - 1), k \in (TurnRamp - 1)..(TurnRamp + 1) :
    LET w == LongWidth
        h == DisplayHeight
        Row(done) == [p \in Cells(w, h) |->
                        IF p[2] = 1 /\ p[1] < done THEN c ELSE 0]
    IN
    /\ Running("pipes", w, h, k, LongFrames)
    /\ num_pipes = 1
    /\ ticks_without_turn = k
    /\ color = c
    /\ direction = 0
    /\ position = <<k, 1>>
    /\ buffer1 = Row(IF k % 2 = 1 THEN k ELSE k - 1)
    /\ buffer2 = Row(IF k % 2 = 1 THEN k - 1 ELSE k)
    /\ recent_rows = <<>>
    /\ spawns = <<>>
    /\ last = DrawCall(PrevBuffer(k % 2 = 0), CurrBuffer(k % 2 = 0), 0,
                        [PipeState EXCEPT !.ticks = k - 1, !.position = <<k - 1, 1>>])

SpecLong == InitLong /\ [][Run]_vars

(* ---------------- properties ---------------- *)

ActiveObject == CurrentObject(screensavers, current_screensaver)

(* The last operation was a run() that called draw. *)
Drew == last.op = "run" /\ last.kind = "draw"

(* The last operation was a run() whose draw of obj returned. *)
DrawReturned(obj) == Drew /\ status = "ok" /\ ActiveObject = obj

(* C1: in a run() that draws, the surface on the output (display.root_group)
   is the one passed as prev and is not the one passed as curr. *)
C1_DrawTargetNotPresented ==
  Drew => (root_group = last.prev /\ root_group # last.curr)

(* C2: the flag agrees with the surface on the output: flag false = buffer1,
   flag true = buffer2, so each drawing run() changes the surface on the
   output. *)
C2_FlagAgreesWithRootGroup ==
  (status = "ok" /\ root_group # "none") =>
    (root_group = IF use_secondary_buffer THEN "buffer2" ELSE "buffer1")

(* C3: with two or more screensavers registered, the index after cycle()
   differs from the index before it. *)
C3_CycleChangesIndex ==
  (last.op = "cycle" /\ Len(screensavers) >= 2) =>
    current_screensaver # last.index

C3_Witness ==
  /\ last.op = "cycle"
  /\ Len(screensavers) >= 2
  /\ frames_left < MaxFrames
  /\ last.index = 1
  /\ current_screensaver = 0

(* C4: a PipesScreensaver.draw entered with num_pipes > 10 returns without an
   error, having cleared curr, set num_pipes to 0 and written the colour at
   one cell; a draw entered with num_pipes <= 10 does not lower num_pipes. *)
C4_WipeCompletes ==
  (Drew /\ ActiveObject = "pipes") =>
    IF last.pipes > MaxPipes
      THEN /\ status = "ok"
           /\ num_pipes \in {0, 1}
           /\ Cardinality({p \in DOMAIN Buf(last.curr) : Buf(last.curr)[p] # 0}) = 1
      ELSE num_pipes >= last.pipes

(* C5: with height >= 11 no row occurs twice among a spawn row and the 10
   spawn rows chosen before it (spawns holds the newest 11). *)
C5_NoRepeatWithinTen ==
  display_height >= HistorySize + 1 =>
    \A i, j \in 1..Len(spawns) : i < j => spawns[i] # spawns[j]

(* C6: recent_rows holds at most 10 rows and is the newest min(n, 10) spawn
   rows in the order they were chosen. *)
C6_RecentRowsAreNewestTen ==
  /\ Len(recent_rows) <= HistorySize
  /\ recent_rows = IF Len(spawns) > HistorySize THEN Tail(spawns) ELSE spawns

(* C7: after MatrixScreensaver.draw, a cell of columns 0..width-2 that held 15
   in prev holds 12 in curr, unless it is the cell (0, y) the spawn step of
   this draw set to 15. *)
C7_HeadDecaysToTwelve ==
  DrawReturned("matrix") =>
    \A x \in 0..(display_width - 2), y \in 0..(display_height - 1) :
      Buf(last.prev)[<<x, y>>] = BrightHead =>
        \/ Buf(last.curr)[<<x, y>>] = BrightHead - HeadDecay
        \/ /\ x = 0
           /\ y = spawns[Len(spawns)]
           /\ Buf(last.curr)[<<x, y>>] = BrightHead

(* C8: after MatrixScreensaver.draw, curr[(x+1, y)] = prev[(x, y)] for every
   row y and every x of 0..width-2. *)
C8_ShiftRight ==
  DrawReturned("matrix") =>
    \A x \in 0..(display_width - 2), y \in 0..(display_height - 1) :
      Buf(last.curr)[<<x + 1, y>>] = Buf(last.prev)[<<x, y>>]

C8_Witness ==
  /\ DrawReturned("matrix")
  /\ \E y \in 0..(display_height - 1) :
       /\ Buf(last.prev)[<<0, y>>] = BrightHead
       /\ Buf(last.curr)[<<1, y>>] = BrightHead
       /\ Buf(last.curr)[<<0, y>>] = BrightHead - HeadDecay

(* buf is zero but for a 15 at column 0 of row r. *)
SingleHead(buf, r) ==
  \A p \in DOMAIN buf : buf[p] = IF p = <<0, r>> THEN BrightHead ELSE 0

(* C9 as stated: from a prev that is zero but for a 15 at (0, r), draw leaves
   curr[(1, r)] = 15, curr[(0, r)] in {0, 15} and every other cell 0. *)
C9_SingleHeadAsStated ==
  DrawReturned("matrix") =>
    \A r \in 0..(display_height - 1) :
      SingleHead(Buf(last.prev), r) =>
        /\ Buf(last.curr)[<<1, r>>] = BrightHead
        /\ Buf(last.curr)[<<0, r>>] \in {0, BrightHead}
        /\ \A p \in DOMAIN Buf(last.curr) \ {<<0, r>>, <<1, r>>} :
             Buf(last.curr)[p] = 0

(* C9 amended: from a prev that is zero but for a 15 at (0, r), draw leaves
   curr[(1, r)] = 15 and curr[(0, r)] = 12, or 15 if the spawn step lit row r;
   every other cell is 0, but for (0, y) = 15 at the row y the spawn step
   chose. *)
C9_SingleHead ==
  DrawReturned("matrix") =>
    \A r \in 0..(display_height - 1) :
      SingleHead(Buf(last.prev), r) =>
        /\ Buf(last.curr)[<<1, r>>] = BrightHead
        /\ Buf(last.curr)[<<0, r>>] \in {BrightHead - HeadDecay, BrightHead}
        /\ Buf(last.curr)[<<0, r>>] = BrightHead => r = spawns[Len(spawns)]
        /\ \A p \in DOMAIN Buf(last.curr) \ {<<0, r>>, <<1, r>>} :
             \/ Buf(last.curr)[p] = 0
             \/ /\ p = <<0, spawns[Len(spawns)]>>
                /\ Buf(last.curr)[p] = BrightHead

C9_Witness ==
  /\ DrawReturned("matrix")
  /\ display_width = 4
  /\ display_height = 3
  /\ SingleHead(Buf(last.prev), 1)
  /\ Buf(last.curr)[<<1, 1>>] = BrightHead
  /\ Buf(last.curr)[<<0, 1>>] = BrightHead - HeadDecay

(* C10: an active screensaver has been reset() with the display's dimensions
   and both buffers are bound to its palette. *)
C10_ActiveIsInitialised ==
  (status = "ok" /\ ActiveObject # "none") =>
    /\ was_reset[ActiveObject]
    /\ viewport[ActiveObject] = <<display_width, display_height>>
    /\ palette1 = ActiveObject
    /\ palette2 = ActiveObject

(* The cell the last draw stepped to lies outside the viewport (its check at
   lines 200-201, with >= as written there). *)
SteppedOut ==
  LET moved == Advance(last.position, last.direction)
      vp == viewport["pipes"]
  IN moved[1] < 0 \/ moved[1] >= vp[1] \/ moved[2] < 0 \/ moved[2] >= vp[2]

(* C11: with a viewport of at least 3 x 3, position is inside the viewport
   after reset() and after every PipesScreensaver.draw that returns; the cell
   draw wrote was inside it; and a step out of the viewport has started a new
   pipe on the edge. *)
C11_PositionInViewport ==
  (ActiveObject = "pipes" /\ was_reset["pipes"] /\ status = "ok"
     /\ display_width >= 3 /\ display_height >= 3) =>
    /\ position \in Cells(viewport["pipes"][1], viewport["pipes"][2])
    /\ Drew => last.position \in Cells(viewport["pipes"][1], viewport["pipes"][2])
    /\ (Drew /\ SteppedOut) =>
         /\ ticks_without_turn = 0
         /\ position \in StartPositions(direction, viewport["pipes"][1],
                                        viewport["pipes"][2])

C11_Witness ==
  /\ DrawReturned("pipes")
  /\ SteppedOut
  /\ position \in Cells(display_width, display_height)

(* C12: a PipesScreensaver.draw entered with num_pipes <= 10 leaves num_pipes
   one higher if the cell it stepped to is outside the viewport, and
   unchanged otherwise. *)
C12_PipeCountStep ==
  (DrawReturned("pipes") /\ last.pipes <= MaxPipes) =>
    num_pipes = last.pipes + (IF SteppedOut THEN 1 ELSE 0)

C12_Witness ==
  /\ DrawReturned("pipes")
  /\ display_width = 4
  /\ last.position = <<3, 1>>
  /\ last.direction = 0
  /\ last.pipes = 1
  /\ num_pipes = 2

(* The last operation was a run() that found the viewport invalid. *)
RanReset == last.op = "run" /\ last.kind = "reset"

(* C13: a run() that finds the viewport of the current screensaver invalid
   draws nothing and raises nothing; it leaves the viewport at the display's
   dimensions, both buffers zero and buffer1 on the output, so the viewport
   is valid for the next run(). *)
C13_InvalidViewportHeals ==
  RanReset =>
    /\ status = "ok"
    /\ viewport[ActiveObject] = <<display_width, display_height>>
    /\ IsViewportValid(viewport[ActiveObject])
    /\ \A c \in DOMAIN buffer1 : buffer1[c] = 0
    /\ \A c \in DOMAIN buffer2 : buffer2[c] = 0
    /\ root_group = "buffer1"
    /\ ~use_secondary_buffer

C13_Witness ==
  /\ RanReset
  /\ ActiveObject = "pipes"
  /\ viewport["pipes"] = <<display_width, display_height>>

(* Every index stored in either bitmap is in 0..(n - 1). *)
IndicesWithin(n) ==
  /\ \A c \in DOMAIN buffer1 : buffer1[c] \in 0..(n - 1)
  /\ \A c \in DOMAIN buffer2 : buffer2[c] \in 0..(n - 1)

(* C14: once reset() has bound a palette (by cycle() or by a run() with an
   invalid viewport), both bitmaps are bound to the same palette and every
   index stored in either of them is below its length, also right after the
   change from the 16-colour rain to the 9-colour pipes. *)
C14_IndicesWithinPalette ==
  palette1 # "empty" =>
    /\ palette2 = palette1
    /\ IndicesWithin(PaletteLen(palette1))

C14_Witness ==
  /\ last.op = "cycle"
  /\ ActiveObject = "pipes"
  /\ palette1 = "pipes"
  /\ spawns # <<>>
  /\ frames_left < MaxFrames
  /\ status = "ok"

(* C15: while the rain is the current screensaver, every cell of both bitmaps
   is in 0..15 after reset() and after every draw. *)
C15_RainCellsInRange ==
  (ActiveObject = "matrix" /\ was_reset["matrix"]) => IndicesWithin(BrightHead + 1)

C15_Witness ==
  /\ DrawReturned("matrix")
  /\ \E c \in DOMAIN Buf(last.curr) : Buf(last.curr)[c] = BrightHead
  /\ \E c \in DOMAIN Buf(last.curr) :
       Buf(last.curr)[c] = BrightHead - HeadDecay - 1
  /\ \E c \in DOMAIN Buf(last.curr) : Buf(last.curr)[c] = 0

(* A step in which run() called draw: only that lowers the draw budget. *)
DrawStep == frames_left' = frames_left - 1

(* What column 0 of a row can hold after MatrixScreensaver.draw when prev
   held v there (lines 106-113 and 125-126). *)
RainFirstColumn(v) ==
  {BrightHead} \cup (IF v = BrightHead
                       THEN {BrightHead - HeadDecay}
                       ELSE {v, IF v > 0 THEN v - 1 ELSE 0})

(* C16: in every run() that calls draw, prev and curr are the two different
   bitmaps, prev is left as it was, and when draw returns curr is determined
   by prev and the screensaver's fields alone, whatever curr held before:
   for the pipes it is prev with the entry position set to the colour, for
   the rain it is prev moved one column right with column 0 decayed or lit. *)
C16_DrawReadsPrevWritesCurr ==
  [][DrawStep =>
       LET prev == Buf(last'.prev)
           written == IF last'.curr = "buffer1" THEN buffer1' ELSE buffer2'
           kept == IF last'.prev = "buffer1" THEN buffer1' ELSE buffer2'
       IN /\ {last'.prev, last'.curr} = {"buffer1", "buffer2"}
          /\ kept = prev
          /\ status' = "ok" =>
               IF ActiveObject = "pipes"
                 THEN written = [prev EXCEPT ![position] = color]
                 ELSE \A c \in DOMAIN written :
                        IF c[1] >= 1
                          THEN written[c] = prev[<<c[1] - 1, c[2]>>]
                          ELSE written[c] \in RainFirstColumn(prev[c])
  ]_vars

C16_Witness ==
  /\ DrawReturned("pipes")
  /\ \E c, d \in DOMAIN Buf(last.prev) :
       /\ c # d
       /\ Buf(last.prev)[c] # 0
       /\ Buf(last.curr)[c] = Buf(last.prev)[c]
       /\ Buf(last.prev)[d] = 0
       /\ Buf(last.curr)[d] # 0

(* The last draw turned: line 197 changed the direction it was entered with. *)
Turned == direction \in {(last.direction + 1) % 4, (last.direction + 3) % 4}

(* C17: a PipesScreensaver.draw that starts no new pipe either keeps the
   direction and adds one to ticks_without_turn, or turns by one quarter and
   sets ticks_without_turn to 0; it can turn only if ticks_without_turn was
   at least 2 on entry, never when it was 0 or 1. *)
C17_TurnNeedsTwoTicks ==
  (DrawReturned("pipes") /\ ~SteppedOut) =>
    \/ direction = last.direction /\ ticks_without_turn = last.ticks + 1
    \/ Turned /\ ticks_without_turn = 0 /\ last.ticks >= 2

C17_Witness ==
  /\ DrawReturned("pipes")
  /\ ~SteppedOut
  /\ last.ticks = 2
  /\ Turned
  /\ ticks_without_turn = 0

(* C18: on a display of height 11 or more the loop of lines 116-119 always has
   a row outside recent_rows to leave with, so no draw of the rain spins for
   ever. *)
C18_SpawnRowAvailable ==
  (ActiveObject = "matrix" /\ was_reset["matrix"]
     /\ display_height >= HistorySize + 1) =>
    /\ SpawnRows(recent_rows, display_height) # {}
    /\ status # "hang"

C18_Witness ==
  /\ DrawReturned("matrix")
  /\ display_height = HistorySize + 1
  /\ Len(recent_rows) = HistorySize
  /\ Len(spawns) = HistorySize + 1

(* C19: ticks_without_turn is always in 0..26, and a draw entered with 26
   leaves it at 0: it turns unless it starts a new pipe. *)
C19_TicksBounded ==
  /\ ticks_without_turn \in 0..(TurnRamp + 1)
  /\ (DrawReturned("pipes") /\ last.ticks = TurnRamp + 1) =>
       /\ ticks_without_turn = 0
       /\ ~SteppedOut => Turned

C19_Witness ==
  /\ DrawReturned("pipes")
  /\ last.ticks = TurnRamp + 1
  /\ ~SteppedOut
  /\ Turned
  /\ ticks_without_turn = 0

(* C20: when a run() that draws follows a run() that drew, its prev is the
   bitmap that was curr in that one; and when the pipes' draw returns, every
   cell that was non-zero in the earlier frame is non-zero in the new one. *)
C20_FramesChain ==
  [][(Drew /\ DrawStep) =>
       LET written == IF last'.curr = "buffer1" THEN buffer1' ELSE buffer2'
       IN /\ last'.prev = last.curr
          /\ (ActiveObject = "pipes" /\ status' = "ok") =>
               \A c \in DOMAIN written :
                 Buf(last.curr)[c] # 0 => written[c] # 0
  ]_vars

C20_Witness ==
  /\ DrawReturned("pipes")
  /\ frames_left = WalkFrames - 3
  /\ Cardinality({c \in DOMAIN Buf(last.curr) : Buf(last.curr)[c] # 0}) = 3
  /\ Cardinality({c \in DOMAIN Buf(last.prev) : Buf(last.prev)[c] # 0}) = 2

====
